---- MODULE Spec2Model ----
(***************************************************************************)
(* StyleSync: the wardrobe-aware recommendation pipeline.                  *)
(*                                                                         *)
(* The module models                                                       *)
(*   - services/geminiService.ts: getAiClient, analyzeWardrobeItem,        *)
(*     generateOutfitRecommendations, generateOutfitVisual;                *)
(*   - App.tsx: the App component (handleGetRecommendations, handleReset,  *)
(*     the tab buttons, refreshWardrobe);                                  *)
(*   - components/WardrobeManager.tsx (handleFileSelect, handleDelete,     *)
(*     handleImportMockData) and                                           *)
(*     components/OutfitCard.tsx (handleGenerateVisual, ownedCount), both  *)
(*     stored in src/types.ts after the type declarations;                 *)
(*   - utils/db (addWardrobeItem, getAllWardrobeItems, deleteWardrobeItem),*)
(*     which is imported by the components but whose source is not in the  *)
(*     tree: it is modelled from section 4.1 of the specification.         *)
(*                                                                         *)
(* Every async function is cut at its awaits on the AI capability: the     *)
(* part before the await is one action, the continuation after the         *)
(* capability has answered is another.  What the capability answers is an  *)
(* input of the continuation, drawn from a bounded universe.               *)
(*                                                                         *)
(* Calls that the code does not await (loadItems and refreshWardrobe after  *)
(* a delete or on a mount, the timer of handleImportMockData) stay in      *)
(* reads and importCall until they settle in an action of their own.       *)
(*                                                                         *)
(* Five specifications share the variables: Spec is the application        *)
(* without the sample import, SpecImport the tabs with handleDelete and    *)
(* handleImportMockData, SpecService a direct caller of                    *)
(* services/geminiService.ts, SpecPrompt a caller that compares two        *)
(* requests of generateOutfitVisual, SpecStore a direct caller of utils/db.*)
(*                                                                         *)
(* Strings of the source that are not ASCII are written as ASCII stand-ins *)
(* (the enum values of ClothingCategory by the names of their members).    *)
(***************************************************************************)
EXTENDS Integers, Sequences, FiniteSets, TLC

VARIABLES
    keyPresent,       \* process.env.API_KEY (or an import.meta.env key) is set
    aiClient,         \* geminiService.ts:5   the cached client exists
    clock,            \* Date.now()
    store,            \* utils/db: the persisted wardrobe, in insertion order
    nextId,           \* crypto.randomUUID(): ids handed out so far
    activeTab,        \* App.tsx:11
    recommendations,  \* App.tsx:12
    isLoading,        \* App.tsx:13
    hasSearched,      \* App.tsx:14
    error,            \* App.tsx:15
    wardrobeItems,    \* App.tsx:16
    crashed,          \* a render threw: React unmounted the tree
    recCall,          \* the pending handleGetRecommendations call
    cards,            \* the mounted OutfitCards: their state and pending call
    isAnalyzing,      \* types.ts:83 (WardrobeManager)
    items,            \* types.ts:82 (WardrobeManager)
    anaCall,          \* the pending handleFileSelect call
    lastCall,         \* the geminiService call that the last step settled, if any
    svc,              \* the pending call of a direct caller of geminiService
    probe,            \* two requests that generateOutfitVisual built, and from what
    dbCall,           \* the last operation of a direct caller of utils/db, its result,
                      \* and the caller's record of the writes that did not fail
    reads,            \* the store reads in flight that no handler awaits, by the
                      \* function that made them (loadItems, refreshWardrobe)
    importCall        \* WardrobeManager: isImporting, the timer of
                      \* handleImportMockData, the number of imports so far

vars == <<keyPresent, aiClient, clock, store, nextId, activeTab, recommendations,
          isLoading, hasSearched, error, wardrobeItems, crashed, recCall, cards,
          isAnalyzing, items, anaCall, lastCall, svc, probe, dbCall, reads, importCall>>

(***************************************************************************)
(* Bounds of the model.                                                    *)
(***************************************************************************)
\* Wardrobe items ever created (ids 1..MaxItems).
MaxItems == 2
\* Elements of a recommendation response.
MaxRecs == 2
\* Outfit items of one recommendation.
MaxOutfitItems == 2
\* The largest value Date.now() takes.
MaxClock == 1
\* Parts of the content of an image response.
MaxParts == 2

\* The imports of the sample clothes.
MaxImports == 1

SeqsUpTo(S, n) == UNION {[1..k -> S] : k \in 0..n}

\* The value of a property that the object does not have (undefined).
Absent == "<absent>"

\* null, where the source has a string or null.
Null == "<null>"

(***************************************************************************)
(* types.ts: the enumerations.                                             *)
(***************************************************************************)
Occasion == {"CASUAL", "WORK", "DATE", "PARTY", "GYM", "FORMAL"}

WeatherType == {"SUNNY", "CLOUDY", "RAINY", "SNOWY", "COLD", "HOT"}

Gender == {"FEMALE", "MALE", "UNISEX"}

ClothingCategory == {"TOP", "BOTTOM", "SHOES", "OUTERWEAR", "ACCESSORY", "ONE_PIECE"}

(***************************************************************************)
(* services/geminiService.ts: getAiClient.                                 *)
(***************************************************************************)
ApiKeyMissing == "API_KEY_MISSING"

\* Lines 8-18: the module-level client after a call (created once, if a key is set).
clientAfter(client, key) == client \/ key

\* Lines 20-24: throws Error("API_KEY_MISSING") when there is still no client.
getAiClientThrows(client, key) == ~clientAfter(client, key)

(***************************************************************************)
(* services/geminiService.ts: analyzeWardrobeItem.                         *)
(*                                                                         *)
(* What the classification capability answers:                             *)
(*   kind "error"    generateContent rejects (network, quota, ...)         *)
(*   kind "empty"    response.text is empty: '{}' is parsed                *)
(*   kind "garbage"  response.text is not JSON                             *)
(*   kind "null"     response.text is the JSON value null                  *)
(*   kind "object"   response.text is a JSON object with the fields given  *)
(*                   (Absent: the object has no such field)                *)
(***************************************************************************)
CategoryStrings == ClothingCategory \cup {"HAT", "top", Absent}

DescriptionStrings == {"denim jacket", "", Absent}

TagLists == {<<>>, <<"blue", "denim">>}

NoObject == [category |-> Absent, description |-> Absent, hasTags |-> FALSE, tags |-> <<>>]

AnalysisObjects ==
    [category : CategoryStrings, description : DescriptionStrings,
     hasTags : {TRUE}, tags : TagLists]
      \cup [category : CategoryStrings, description : DescriptionStrings,
            hasTags : {FALSE}, tags : {<<>>}]

AnalysisOutcomes ==
    {[kind |-> k, result |-> NoObject] : k \in {"error", "empty", "garbage", "null"}}
      \cup {[kind |-> "object", result |-> o] : o \in AnalysisObjects}

\* The outcomes the application-level specification draws from: every failure,
\* and objects whose category is a member, is no member, differs from a member in
\* case only, or is missing.
AnalysisSample ==
    {[kind |-> k, result |-> NoObject] : k \in {"error", "empty", "garbage", "null"}}
      \cup {[kind |-> "object",
             result |-> [category |-> "BOTTOM", description |-> "denim jacket",
                         hasTags |-> TRUE, tags |-> <<"blue", "denim">>]],
            [kind |-> "object",
             result |-> [category |-> "HAT", description |-> Absent,
                         hasTags |-> FALSE, tags |-> <<>>]],
            [kind |-> "object",
             result |-> [category |-> "top", description |-> "",
                         hasTags |-> TRUE, tags |-> <<>>]],
            [kind |-> "object",
             result |-> [category |-> Absent, description |-> Absent,
                         hasTags |-> FALSE, tags |-> <<>>]]}

NoAnalysis == [category |-> Absent, description |-> Absent, tags |-> <<>>]

AnalysisReturned(v, req) ==
    [kind |-> "returned", message |-> "", value |-> v, requested |-> req]

AnalysisThrew(m, req) ==
    [kind |-> "threw", message |-> m, value |-> NoAnalysis, requested |-> req]

\* Lines 38-45: the image part of the request.
analyzeRequest(base64Image) == <<[data |-> base64Image, mimeType |-> "image/jpeg"]>>

\* The category as the capability gave it, without the fallback of lines 61-64.
matchedCategoryAsGiven(c) == c

\* Lines 61-64: the category of the result, TOP unless it is a member of the enum.
matchedCategory(c) == IF c \in ClothingCategory THEN c ELSE "TOP"

\* A try block that returns the description and the tags as they were parsed.
analyzeTryAsParsed(outcome) ==
    CASE outcome.kind = "error" -> AnalysisThrew("NetworkError", TRUE)
      [] outcome.kind = "garbage" -> AnalysisThrew("SyntaxError", TRUE)
      [] outcome.kind = "null" -> AnalysisThrew("TypeError", TRUE)
      [] OTHER ->
           AnalysisReturned(
             [category |-> matchedCategory(outcome.result.category),
              description |-> outcome.result.description,
              tags |-> outcome.result.tags],
             TRUE)

\* Lines 38-70: the try block after the request was sent.
analyzeTry(outcome) ==
    CASE outcome.kind = "error" -> AnalysisThrew("NetworkError", TRUE)
      [] outcome.kind = "garbage" -> AnalysisThrew("SyntaxError", TRUE)
      [] outcome.kind = "null" -> AnalysisThrew("TypeError", TRUE)
      [] OTHER ->
           AnalysisReturned(
             [category |-> matchedCategory(outcome.result.category),
              description |-> IF outcome.result.description \in {Absent, ""}
                              THEN "UNKNOWN_ITEM"
                              ELSE outcome.result.description,
              tags |-> IF outcome.result.hasTags THEN outcome.result.tags ELSE <<>>],
             TRUE)

\* A catch block that rethrows every error.
analyzeCatchRethrow(r) == r

\* Lines 72-80: the catch block.
analyzeCatch(r) ==
    IF r.kind # "threw" THEN r
    ELSE IF r.message = ApiKeyMissing THEN r
    ELSE AnalysisReturned(
           [category |-> "TOP", description |-> "UPLOADED_ITEM", tags |-> <<>>],
           r.requested)

\* Lines 29-30: the call up to the request; "pending" when the request is sent.
analyzeWardrobeItemCall(client, key) ==
    IF getAiClientThrows(client, key)
    THEN analyzeCatch(AnalysisThrew(ApiKeyMissing, FALSE))
    ELSE [kind |-> "pending", message |-> "", value |-> NoAnalysis, requested |-> TRUE]

\* Lines 59-80: the call after the capability answered.
analyzeWardrobeItemSettle(outcome) == analyzeCatch(analyzeTry(outcome))

(***************************************************************************)
(* utils/db: the wardrobe store.  A WardrobeItem (types.ts:34-42) is       *)
(* [id, imageData, mimeType, category, description, tags, createdAt].      *)
(***************************************************************************)
ItemIds == 1..MaxItems

\* An id that no wardrobe item ever has.
UnknownId == MaxItems + 1

\* wardrobeItemId of an outfit item: 0 when the field is absent or empty (both falsy).
NoRef == 0

getAllWardrobeItems(db) == db

DuplicateId == "DuplicateId"

\* put rejects an item whose id is stored already.
addWardrobeItemFails(db, item) == \E i \in 1..Len(db) : db[i].id = item.id

\* A put that replaces the stored item of the same id.
addWardrobeItemOverwrite(db, item) ==
    IF \E i \in 1..Len(db) : db[i].id = item.id
    THEN [i \in 1..Len(db) |-> IF db[i].id = item.id THEN item ELSE db[i]]
    ELSE Append(db, item)

\* A put that stores the new item before the ones stored already.
addWardrobeItemFirst(db, item) ==
    IF \E i \in 1..Len(db) : db[i].id = item.id THEN db ELSE <<item>> \o db

\* put: the item is appended unless its id is stored already.
addWardrobeItem(db, item) ==
    IF \E i \in 1..Len(db) : db[i].id = item.id THEN db ELSE Append(db, item)

RECURSIVE SelectNot(_, _)
SelectNot(db, id) ==
    IF db = <<>> THEN <<>>
    ELSE IF Head(db).id = id THEN SelectNot(Tail(db), id)
    ELSE <<Head(db)>> \o SelectNot(Tail(db), id)

\* delete: the item of that id, if any, is removed.
deleteWardrobeItem(db, id) == SelectNot(db, id)

\* A delete that rejects an id that is not stored.
deleteWardrobeItemFailsWhenAbsent(db, id) == \A i \in 1..Len(db) : db[i].id # id

\* delete never rejects.
deleteWardrobeItemFails(db, id) == FALSE

(***************************************************************************)
(* services/geminiService.ts: generateOutfitRecommendations.               *)
(*                                                                         *)
(* What the recommendation capability answers:                             *)
(*   kind "error"    generateContent rejects                               *)
(*   kind "empty"    response.text is empty                                *)
(*   kind "garbage"  response.text is not JSON                             *)
(*   kind "scalar"   response.text is JSON, but not an array               *)
(*   kind "array"    response.text is a JSON array of the elements given   *)
(* An element is [title, itemsKind, items]: itemsKind is "seq" when the    *)
(* element has an array items, "missing" when it has no items field and    *)
(* "notseq" when items is not an array.  An outfit item is                 *)
(* [name, color, type, wardrobeItemId]; name Absent: the field is missing. *)
(***************************************************************************)
\* Lines 84-93: outfitItemSchema, required name, color and type.
outfitItemSchema(i) == i.name # Absent /\ i.color # Absent /\ i.type # Absent

\* Lines 95-111: recommendationSchema, items an array of outfit items (of the
\* required fields, an element of the model carries title and items).
recommendationSchema(e) ==
    /\ e.title # Absent
    /\ e.itemsKind = "seq"
    /\ \A k \in 1..Len(e.items) : outfitItemSchema(e.items[k])

\* Lines 113-116: responseSchema, an array of recommendations.
responseSchema(outcome) ==
    /\ outcome.kind = "array"
    /\ \A k \in 1..Len(outcome.elems) : recommendationSchema(outcome.elems[k])

\* App.tsx:50-53: the preferences handed to the service.
prefsWithData(prefs, currentItems) ==
    [occasion |-> prefs.occasion, weather |-> prefs.weather,
     styleParams |-> prefs.styleParams, gender |-> prefs.gender,
     useWardrobe |-> prefs.useWardrobe,
     wardrobeItems |-> IF prefs.useWardrobe THEN currentItems ELSE <<>>]

\* An inventory text for every snapshot that is not empty.
wardrobeContextOfSnapshot(prefs) ==
    IF Len(prefs.wardrobeItems) > 0
    THEN [present |-> TRUE,
          itemsList |-> [k \in 1..Len(prefs.wardrobeItems) |->
                           [id |-> prefs.wardrobeItems[k].id,
                            category |-> prefs.wardrobeItems[k].category,
                            description |-> prefs.wardrobeItems[k].description]]]
    ELSE [present |-> FALSE, itemsList |-> <<>>]

\* Lines 126-140: the inventory text, "" unless the wardrobe is used and not empty.
wardrobeContext(prefs) ==
    IF prefs.useWardrobe /\ Len(prefs.wardrobeItems) > 0
    THEN [present |-> TRUE,
          itemsList |-> [k \in 1..Len(prefs.wardrobeItems) |->
                           [id |-> prefs.wardrobeItems[k].id,
                            category |-> prefs.wardrobeItems[k].category,
                            description |-> prefs.wardrobeItems[k].description]]]
    ELSE [present |-> FALSE, itemsList |-> <<>>]

\* Lines 143-156: the prompt.
recPrompt(prefs) ==
    [gender |-> prefs.gender, occasion |-> prefs.occasion, weather |-> prefs.weather,
     styleParams |-> IF prefs.styleParams = "" THEN "MINIMAL" ELSE prefs.styleParams,
     wardrobeContext |-> wardrobeContext(prefs)]

NoPrompt ==
    [gender |-> "", occasion |-> "", weather |-> "", styleParams |-> "",
     wardrobeContext |-> [present |-> FALSE, itemsList |-> <<>>]]

RecReturned(b) == [kind |-> "returned", message |-> "", batch |-> b, requested |-> TRUE]

RecThrew(m, req) == [kind |-> "threw", message |-> m, batch |-> <<>>, requested |-> req]

\* An id without the index of the element.
recOfTimestampOnly(item, index, now, prefs) ==
    ("id" :> ("rec-" \o ToString(now)) @@ "context" :> prefs) @@ item

\* Lines 175-179: one recommendation: the element spread, then id and context;
\* now is what Date.now() returns for this element.
recOf(item, index, now, prefs) ==
    ("id" :> ("rec-" \o ToString(now) \o "-" \o ToString(index)) @@ "context" :> prefs)
      @@ item

\* A try block that takes an empty array for a missing answer.
recommendTryEmptyFails(outcome, prefs, now) ==
    CASE outcome.kind = "error" -> RecThrew("NetworkError", TRUE)
      [] outcome.kind = "empty" -> RecThrew("NO_SUGGESTION", TRUE)
      [] outcome.kind = "garbage" -> RecThrew("SyntaxError", TRUE)
      [] outcome.kind = "scalar" -> RecThrew("TypeError", TRUE)
      [] outcome.kind = "array" /\ outcome.elems = <<>> -> RecThrew("NO_SUGGESTION", TRUE)
      [] OTHER ->
           RecReturned([k \in 1..Len(outcome.elems) |->
                          recOf(outcome.elems[k], k - 1, now[k], prefs)])

\* Lines 170-179: the try block after the request was sent; now[k] is what
\* Date.now() returns in the callback of the k-th element.
recommendTry(outcome, prefs, now) ==
    CASE outcome.kind = "error" -> RecThrew("NetworkError", TRUE)
      [] outcome.kind = "empty" -> RecThrew("NO_SUGGESTION", TRUE)
      [] outcome.kind = "garbage" -> RecThrew("SyntaxError", TRUE)
      [] outcome.kind = "scalar" -> RecThrew("TypeError", TRUE)
      [] OTHER ->
           RecReturned([k \in 1..Len(outcome.elems) |->
                          recOf(outcome.elems[k], k - 1, now[k], prefs)])

\* A catch block that throws an error of its own in place of the one it caught.
recommendCatchWrapped(r) ==
    IF r.kind = "threw" THEN RecThrew("GENERATION_FAILED", r.requested) ELSE r

\* Lines 181-184: the catch block rethrows.
recommendCatch(r) == r

\* Lines 122-124: the call up to the request.
generateOutfitRecommendationsCall(client, key) ==
    IF getAiClientThrows(client, key)
    THEN recommendCatch(RecThrew(ApiKeyMissing, FALSE))
    ELSE [kind |-> "pending", message |-> "", batch |-> <<>>, requested |-> TRUE]

\* Lines 170-184: the call after the capability answered.
generateOutfitRecommendationsSettle(outcome, prefs, now) ==
    recommendCatch(recommendTry(outcome, prefs, now))

(***************************************************************************)
(* services/geminiService.ts: generateOutfitVisual.                        *)
(*                                                                         *)
(* What the image capability answers:                                      *)
(*   kind "error"       generateContent rejects                            *)
(*   kind "undefined"   the response has no candidates field               *)
(*   kind "empty"       candidates is an empty array                       *)
(*   kind "nocontent"   candidates[0] has no content                       *)
(*   kind "noparts"     candidates[0].content has no parts                 *)
(*   kind "parts"       candidates[0].content.parts is the sequence given; *)
(*                      a part is [inlineData, mimeType, data]: a text     *)
(*                      part has inlineData FALSE, data "" is an inline    *)
(*                      part without data                                  *)
(***************************************************************************)
TextPart == [inlineData |-> FALSE, mimeType |-> "", data |-> ""]

ImageParts ==
    [inlineData : {TRUE}, mimeType : {"image/png"}, data : {"", "AAAA", "BBBB"}]

VisualParts == {TextPart} \cup ImageParts

VisualOutcomes ==
    {[kind |-> k, parts |-> <<>>] :
        k \in {"error", "undefined", "empty", "nocontent", "noparts"}}
      \cup {[kind |-> "parts", parts |-> ps] : ps \in SeqsUpTo(VisualParts, MaxParts)}

\* The outcomes the application-level specification draws from: a rejection, a
\* response without candidates, one with an empty candidates array, and parts with
\* no image, with an image, and with a text part before an image.
VisualSample ==
    {[kind |-> k, parts |-> <<>>] : k \in {"error", "undefined", "empty"}}
      \cup {[kind |-> "parts", parts |-> ps] :
               ps \in {<<TextPart>>,
                       <<[inlineData |-> TRUE, mimeType |-> "image/png", data |-> "AAAA"]>>,
                       <<TextPart,
                         [inlineData |-> TRUE, mimeType |-> "image/png", data |-> "BBBB"]>>}}

\* Lines 196-201: the subject of the photo.
subjectPrompt(context) ==
    IF context.gender = "FEMALE" THEN "young trendy female, street style"
    ELSE IF context.gender = "MALE" THEN "young trendy male, city boy style"
    ELSE "young fashion model"

\* Lines 203-206: the background.
bg(context) ==
    IF context.occasion = "GYM" THEN "gym"
    ELSE IF context.occasion = "PARTY" THEN "neon night city"
    ELSE IF context.occasion = "WORK" THEN "modern office"
    ELSE "street corner"

\* An outfit text made of the reference items alone.
outfitDetailsItemsOnly(description, referenceItems) ==
    [description |-> IF referenceItems = <<>> THEN [title |-> "", items |-> <<>>]
                     ELSE description,
     including |-> [k \in 1..Len(referenceItems) |-> referenceItems[k].description]]

\* Lines 208-215: the outfit, with the descriptions of the reference items.
outfitDetails(description, referenceItems) ==
    [description |-> description,
     including |-> [k \in 1..Len(referenceItems) |-> referenceItems[k].description]]

\* Lines 217-221: the prompt.
visualPrompt(description, context, referenceItems) ==
    [subject |-> subjectPrompt(context),
     wearing |-> outfitDetails(description, referenceItems),
     background |-> bg(context)]

VisualReturned(v, req) == [kind |-> "returned", message |-> "", value |-> v, requested |-> req]

VisualThrew(m, req) == [kind |-> "threw", message |-> m, value |-> Null, requested |-> req]

\* Line 240: the data URL of an inline part.
dataUrl(part) == "data:" \o part.mimeType \o ";base64," \o part.data

RECURSIVE firstInlineData(_)
\* Lines 238-242: the first part with inline data, Null when there is none.
firstInlineData(parts) ==
    IF parts = <<>> THEN Null
    ELSE IF Head(parts).inlineData /\ Head(parts).data # "" THEN dataUrl(Head(parts))
    ELSE firstInlineData(Tail(parts))

\* Lines 226-245: the try block after the request was sent.
visualTry(outcome) ==
    CASE outcome.kind = "error" -> VisualThrew("NetworkError", TRUE)
      [] outcome.kind = "undefined" -> VisualReturned(Null, TRUE)
      [] outcome.kind \in {"empty", "nocontent"} -> VisualThrew("TypeError", TRUE)
      [] outcome.kind = "noparts" -> VisualReturned(Null, TRUE)
      [] OTHER -> VisualReturned(firstInlineData(outcome.parts), TRUE)

\* A catch block that rethrows.
visualCatchRethrow(r) == r

\* Lines 246-249: the catch block returns null.
visualCatch(r) == IF r.kind = "threw" THEN VisualReturned(Null, r.requested) ELSE r

\* Lines 189-190: the call up to the request.
generateOutfitVisualCall(client, key) ==
    IF getAiClientThrows(client, key)
    THEN visualCatch(VisualThrew(ApiKeyMissing, FALSE))
    ELSE [kind |-> "pending", message |-> "", value |-> Null, requested |-> TRUE]

\* Lines 226-249: the call after the capability answered.
generateOutfitVisualSettle(outcome) == visualCatch(visualTry(outcome))

(***************************************************************************)
(* The second copy of generateOutfitVisual, stored in src/App.tsx:368-486    *)
(* after the App component (the copies of getAiClient, analyzeWardrobeItem *)
(* and generateOutfitRecommendations stored with it do what the ones of    *)
(* services/geminiService.ts do).                                          *)
(***************************************************************************)
\* App.tsx:377-385: the subject of the photo.
subjectPromptAlt(context) ==
    IF context.gender = "FEMALE" THEN "A fashionable Taiwanese woman"
    ELSE IF context.gender = "MALE" THEN "A stylish Taiwanese man"
    ELSE "A stylish Taiwanese person"

\* App.tsx:388-410: the background, by occasion.
backgroundPrompt(context) ==
    CASE context.occasion = "CASUAL" -> "Taiwanese street scene"
      [] context.occasion = "WORK" -> "Modern office setting"
      [] context.occasion = "DATE" -> "A cozy cafe interior"
      [] context.occasion = "PARTY" -> "A trendy evening bistro"
      [] context.occasion = "GYM" -> "A bright modern gym interior"
      [] context.occasion = "FORMAL" -> "A high-end hotel lobby"
      [] OTHER -> "A clean, aesthetic urban street corner"

\* App.tsx:413-433: the lighting, by weather.
weatherPrompt(context) ==
    CASE context.weather = "SUNNY" -> "Sunny day"
      [] context.weather = "CLOUDY" -> "Overcast day"
      [] context.weather = "RAINY" -> "Rainy day"
      [] context.weather \in {"SNOWY", "COLD"} -> "Cold weather"
      [] context.weather = "HOT" -> "Hot summer day"
      [] OTHER -> "Natural daylight."

\* App.tsx:436-443: the outfit, with category, description and tags of each
\* reference item.
outfitDetailsAlt(description, referenceItems) ==
    [description |-> description,
     wearing |-> [k \in 1..Len(referenceItems) |->
                    [category |-> referenceItems[k].category,
                     description |-> referenceItems[k].description,
                     tags |-> referenceItems[k].tags]]]

\* App.tsx:446-459: the prompt.
visualPromptAlt(description, context, referenceItems) ==
    [subject |-> subjectPromptAlt(context),
     outfit |-> outfitDetailsAlt(description, referenceItems),
     background |-> backgroundPrompt(context),
     lighting |-> weatherPrompt(context)]

\* App.tsx:461-481: the try block after the request was sent.
visualTryAlt(outcome) ==
    CASE outcome.kind = "error" -> VisualThrew("NetworkError", TRUE)
      [] outcome.kind \in {"undefined", "empty"} -> VisualReturned(Null, TRUE)
      [] outcome.kind \in {"nocontent", "noparts"} -> VisualThrew("TypeError", TRUE)
      [] OTHER -> VisualReturned(firstInlineData(outcome.parts), TRUE)

\* App.tsx:482-485: the catch block returns null.
visualCatchAlt(r) == IF r.kind = "threw" THEN VisualReturned(Null, r.requested) ELSE r

\* App.tsx:369-370: the call up to the request.
generateOutfitVisualAltCall(client, key) ==
    IF getAiClientThrows(client, key)
    THEN visualCatchAlt(VisualThrew(ApiKeyMissing, FALSE))
    ELSE [kind |-> "pending", message |-> "", value |-> Null, requested |-> TRUE]

\* App.tsx:461-485: the call after the capability answered.
generateOutfitVisualAltSettle(outcome) == visualCatchAlt(visualTryAlt(outcome))

(***************************************************************************)
(* components/OutfitCard.tsx (src/types.ts:300-457).                       *)
(*                                                                         *)
(* A mounted card is [imageUrl, isGeneratingImage, imageError] with, for   *)
(* its pending generateOutfitVisual calls, their number and the prompt and *)
(* the reference items of the last one; assigned counts the setImageUrl    *)
(* calls of the card.                                                      *)
(***************************************************************************)
NoVisualPrompt ==
    [subject |-> "", wearing |-> [description |-> [title |-> "", items |-> <<>>],
                                  including |-> <<>>], background |-> ""]

FreshCard ==
    [imageUrl |-> Null, isGeneratingImage |-> FALSE, imageError |-> FALSE,
     pending |-> 0, prompt |-> NoVisualPrompt, refs |-> <<>>, assigned |-> 0]

RECURSIVE findById(_, _)
\* types.ts:322: allWardrobeItems.find(w => w.id === id), <<>> for undefined, <<w>> else.
findById(all, id) ==
    IF all = <<>> THEN <<>>
    ELSE IF Head(all).id = id THEN <<Head(all)>>
    ELSE findById(Tail(all), id)

RECURSIVE usedWardrobeItems(_, _)
\* types.ts:321-323: the wardrobe items the outfit items refer to, in outfit order.
usedWardrobeItems(outfit, all) ==
    IF outfit = <<>> THEN <<>>
    ELSE findById(all, Head(outfit).wardrobeItemId) \o usedWardrobeItems(Tail(outfit), all)

\* types.ts:325: the text description of the outfit.
cardDescription(rec) ==
    [title |-> rec.title,
     items |-> [k \in 1..Len(rec.items) |-> <<rec.items[k].color, rec.items[k].name>>]]

\* types.ts:426: an outfit item is shown as owned.
isOwned(item) == item.wardrobeItemId # NoRef

\* types.ts:351: the owned count shown on the card.
ownedCount(rec) == Len(SelectSeq(rec.items, isOwned))

\* types.ts:374: the generate button is rendered while there is no image.
generateButtonShown(card) == card.imageUrl = Null

\* A generate button without the disabled attribute.
generateButtonAlwaysEnabled(card) == TRUE

\* types.ts:386: the generate button is disabled while generating.
generateButtonEnabled(card) == ~card.isGeneratingImage

\* A handler that leaves imageError as it is.
cardOnGenerateKeepsError(card) ==
    IF card.imageUrl # Null THEN card
    ELSE [card EXCEPT !.isGeneratingImage = TRUE]

\* types.ts:316-318: the handler up to the call.
cardOnGenerate(card) ==
    IF card.imageUrl # Null THEN card
    ELSE [card EXCEPT !.isGeneratingImage = TRUE, !.imageError = FALSE]

\* types.ts:338-348: the handler after generateOutfitVisual has settled with r.
cardAfterVisual(card, r) ==
    IF r.kind = "threw"
    THEN [card EXCEPT !.imageError = TRUE, !.isGeneratingImage = FALSE]
    ELSE IF r.value # Null
    THEN [card EXCEPT !.imageUrl = r.value, !.assigned = @ + 1,
                      !.isGeneratingImage = FALSE]
    ELSE [card EXCEPT !.imageError = TRUE, !.isGeneratingImage = FALSE]

\* One call of the card is no longer pending; with the last one, the card keeps
\* neither its prompt nor its reference items.
cardAfterSettle(card) ==
    IF card.pending > 1 THEN [card EXCEPT !.pending = @ - 1]
    ELSE [card EXCEPT !.pending = 0, !.prompt = NoVisualPrompt, !.refs = <<>>]

(***************************************************************************)
(* App.tsx: what the App renders.                                          *)
(***************************************************************************)
\* App.tsx:104-149: the cards are rendered on the stylist tab after a search.
showsCards(tab, searched) == tab = "STYLIST" /\ searched

\* types.ts:351: rendering a card whose items is not an array throws.
renderThrows(recs) == \E k \in 1..Len(recs) : recs[k].itemsKind # "seq"

\* App.tsx:144-146: the cards after a render; a card keeps its state while a
\* recommendation of its key (rec.id) stays rendered.
cardsAfter(tab, searched, recs, oldShown, oldRecs, oldCards) ==
    IF ~showsCards(tab, searched) \/ renderThrows(recs) THEN <<>>
    ELSE [k \in 1..Len(recs) |->
            IF oldShown /\ \E j \in 1..Len(oldRecs) : oldRecs[j].id = recs[k].id
            THEN oldCards[CHOOSE j \in 1..Len(oldRecs) : oldRecs[j].id = recs[k].id]
            ELSE FreshCard]

crashAfter(tab, searched, recs) == showsCards(tab, searched) /\ renderThrows(recs)

\* App.tsx:56: the recommendations after the service has settled with r.
recommendationsAfter(r, recs) == IF r.kind = "returned" THEN r.batch ELSE recs

\* hasSearched set whether the service returned or threw.
searchedAfterAlways(r, searched) == TRUE

\* App.tsx:57: hasSearched after the service has settled with r.
searchedAfter(r, searched) == IF r.kind = "returned" THEN TRUE ELSE searched

ConfigError == "CONFIG_ERROR: API key not found"

GenericError == "GENERIC_ERROR: please try again"

\* App.tsx:58-64: the message shown for a failure.
errorFor(message) == IF message = ApiKeyMissing THEN ConfigError ELSE GenericError

RECURSIVE insertByCreatedAt(_, _)
insertByCreatedAt(sorted, item) ==
    IF sorted = <<>> THEN <<item>>
    ELSE IF Head(sorted).createdAt >= item.createdAt
    THEN <<Head(sorted)>> \o insertByCreatedAt(Tail(sorted), item)
    ELSE <<item>> \o sorted

RECURSIVE sortNewestFirst(_)
\* types.ts:94: sort((a, b) => b.createdAt - a.createdAt), a stable sort.
sortNewestFirst(list) ==
    IF list = <<>> THEN <<>>
    ELSE insertByCreatedAt(sortNewestFirst(SubSeq(list, 1, Len(list) - 1)), list[Len(list)])

\* types.ts:92-95: loadItems.
loadItems(db) == sortNewestFirst(getAllWardrobeItems(db))

(***************************************************************************)
(* The state machine.                                                      *)
(***************************************************************************)
\* The form states a submit is drawn from (OutfitForm.tsx:12-16).
FormSample ==
    [occasion : {"WORK"}, weather : {"SUNNY"}, gender : {"UNISEX"},
     styleParams : {""}, useWardrobe : BOOLEAN]

\* The files a capture can be drawn from: their declared media type and content.
Files == [mimeType : {"image/jpeg", "image/png"}, base64 : {"/9j/4AAQ"}]

FileSample == [mimeType : {"image/png"}, base64 : {"/9j/4AAQ"}]

\* The recommendation responses the application-level specification draws from:
\* arrays of a plain look, a look that refers to the wardrobe (to item 1 and to an
\* id no item has) and three elements that do not conform to the schema.
plainItem == [name |-> "shirt", color |-> "white", type |-> "top", wardrobeItemId |-> NoRef]

ownedItem(id) == [name |-> "shirt", color |-> "white", type |-> "top", wardrobeItemId |-> id]

namelessItem == [name |-> Absent, color |-> "white", type |-> "top", wardrobeItemId |-> NoRef]

look(outfit) == [title |-> "City look", itemsKind |-> "seq", items |-> outfit]

SampleList ==
    <<look(<<plainItem>>),
      look(SubSeq(<<ownedItem(1), ownedItem(UnknownId), plainItem>>, 1,
                  IF MaxOutfitItems < 3 THEN MaxOutfitItems ELSE 3)),
      look(<<namelessItem>>),
      [title |-> "City look", itemsKind |-> "missing", items |-> <<>>]>>

SampleElements == {SampleList[k] : k \in 1..Len(SampleList)}

RecSample ==
    {[kind |-> k, elems |-> <<>>] : k \in {"error", "empty", "garbage", "scalar"}}
      \cup {[kind |-> "array", elems |-> SubSeq(SampleList, run[1], run[2])] :
               run \in {r \in (1..(Len(SampleList) + 1)) \X (0..Len(SampleList)) :
                           r[2] >= r[1] - 1 /\ r[2] - r[1] < MaxRecs}}

NoPrefs ==
    [occasion |-> "", weather |-> "", styleParams |-> "", gender |-> "",
     useWardrobe |-> FALSE, wardrobeItems |-> <<>>]

\* The answer of the capability to a call that sent no request.
NoAnswer == [kind |-> "none"]

\* The record of the service call a step settles (NoCall when it settles none):
\* the function, whether it returned or threw (and the message), whether it had
\* sent a request to the capability, what the capability answered, and what the
\* function returned.
NoCall ==
    [fn |-> "none", kind |-> "none", message |-> "", requested |-> FALSE,
     answer |-> NoAnswer, analysis |-> NoAnalysis, batch |-> <<>>, image |-> Null]

analyzeCalled(r, outcome) ==
    [fn |-> "analyzeWardrobeItem", kind |-> r.kind, message |-> r.message,
     requested |-> r.requested, answer |-> outcome, analysis |-> r.value,
     batch |-> <<>>, image |-> Null]

recommendCalled(r, outcome) ==
    [fn |-> "generateOutfitRecommendations", kind |-> r.kind, message |-> r.message,
     requested |-> r.requested, answer |-> outcome, analysis |-> NoAnalysis,
     batch |-> r.batch, image |-> Null]

visualAltCalled(r, outcome) ==
    [fn |-> "generateOutfitVisual(App.tsx)", kind |-> r.kind, message |-> r.message,
     requested |-> r.requested, answer |-> outcome, analysis |-> NoAnalysis,
     batch |-> <<>>, image |-> r.value]

visualCalled(r, outcome) ==
    [fn |-> "generateOutfitVisual", kind |-> r.kind, message |-> r.message,
     requested |-> r.requested, answer |-> outcome, analysis |-> NoAnalysis,
     batch |-> <<>>, image |-> r.value]

NoVisualPromptAlt ==
    [subject |-> "", outfit |-> [description |-> [title |-> "", items |-> <<>>],
                                 wearing |-> <<>>], background |-> "", lighting |-> ""]

SvcIdle ==
    [fn |-> "none", prefs |-> NoPrefs, recRequest |-> NoPrompt,
     visRequest |-> NoVisualPrompt, visRequestAlt |-> NoVisualPromptAlt,
     anaRequest |-> <<>>]

RecIdle == [pc |-> "idle", prefs |-> NoPrefs, request |-> NoPrompt, pending |-> 0]

\* A submit button that ignores isLoading.
submitAlwaysEnabled(loading) == TRUE

\* OutfitForm.tsx:124-127: the submit button is disabled while isLoading.
submitEnabled(loading) == ~loading

AnaIdle == [pc |-> "idle", mimeType |-> "", base64 |-> "", request |-> <<>>]

NoProbe == [copy |-> "none"]

ImportIdle == [isImporting |-> FALSE, pc |-> "idle", imports |-> 0]

NoDbCall ==
    [op |-> "none", id |-> NoRef, error |-> Null, returned |-> <<>>, writes |-> <<>>]

Init ==
    /\ keyPresent \in BOOLEAN
    /\ aiClient = FALSE
    /\ clock = 0
    /\ store = <<>>
    /\ nextId = 1
    /\ activeTab = "STYLIST"
    /\ recommendations = <<>>
    /\ isLoading = FALSE
    /\ hasSearched = FALSE
    /\ error = Null
    /\ wardrobeItems = <<>>
    /\ crashed = FALSE
    /\ recCall = RecIdle
    /\ cards = <<>>
    /\ isAnalyzing = FALSE
    /\ items = <<>>
    /\ anaCall = AnaIdle
    /\ lastCall = NoCall
    /\ svc = SvcIdle
    /\ probe = NoProbe
    /\ dbCall = NoDbCall
    /\ reads = {}
    /\ importCall = ImportIdle

\* What Date.now() may return in n calls, one after the other.
Timestamps(n) ==
    {t \in [1..n -> clock..MaxClock] : \A i \in 1..(n - 1) : t[i] <= t[i + 1]}

\* What Date.now() may return in n calls within one millisecond.
SameTime(n) == {t \in Timestamps(n) : \A i \in 1..n : t[i] = t[1]}

\* What Date.now() may return next.
Now == {t \in {clock, clock + 1} : t <= MaxClock}

\* OutfitForm.tsx:18-27 and App.tsx:42-47: submit, up to the read of the store.
handleSubmit(form) ==
    /\ ~crashed
    /\ lastCall' = NoCall
    /\ activeTab = "STYLIST" /\ ~hasSearched
    /\ submitEnabled(isLoading)
    /\ isLoading' = TRUE
    /\ error' = Null
    /\ recCall' = [pc |-> "db",
                   prefs |-> [occasion |-> form.occasion, weather |-> form.weather,
                              styleParams |-> form.styleParams, gender |-> form.gender,
                              useWardrobe |-> form.useWardrobe /\ Len(wardrobeItems) > 0,
                              wardrobeItems |-> <<>>],
                   request |-> NoPrompt,
                   pending |-> recCall.pending + 1]
    /\ UNCHANGED <<keyPresent, aiClient, clock, store, nextId, activeTab, recommendations,
                   hasSearched, wardrobeItems, crashed, cards, isAnalyzing, items, anaCall,
                   svc, probe, dbCall,
                   reads, importCall>>

\* App.tsx:47-55 (and 58-67 when the service throws at once): the store was read.
handleGetRecommendationsRead ==
    /\ ~crashed
    /\ recCall.pc = "db"
    /\ LET currentItems == getAllWardrobeItems(store)
           prefs == prefsWithData(recCall.prefs, currentItems)
           call == generateOutfitRecommendationsCall(aiClient, keyPresent)
       IN /\ wardrobeItems' = currentItems
          /\ aiClient' = clientAfter(aiClient, keyPresent)
          /\ IF call.kind = "threw"
             THEN /\ lastCall' = recommendCalled(call, NoAnswer)
                  /\ recommendations' = recommendationsAfter(call, recommendations)
                  /\ hasSearched' = searchedAfter(call, hasSearched)
                  /\ error' = errorFor(call.message)
                  /\ isLoading' = FALSE
                  /\ recCall' = [RecIdle EXCEPT !.pending = recCall.pending - 1]
             ELSE /\ recCall' = [pc |-> "ai", prefs |-> prefs, request |-> recPrompt(prefs),
                                  pending |-> recCall.pending]
                  /\ lastCall' = NoCall
                  /\ UNCHANGED <<recommendations, hasSearched, error, isLoading>>
          /\ cards' = cardsAfter(activeTab, hasSearched', recommendations',
                                 showsCards(activeTab, hasSearched), recommendations,
                                 cards)
          /\ crashed' = crashAfter(activeTab, hasSearched', recommendations')
    /\ UNCHANGED <<keyPresent, clock, store, nextId, activeTab, isAnalyzing, items,
                   anaCall, svc, probe, dbCall,
                   reads, importCall>>

\* App.tsx:55-67: the recommendation capability answered.
handleGetRecommendationsSettle(outcome, now) ==
    /\ ~crashed
    /\ recCall.pc = "ai"
    /\ clock' = IF now = <<>> THEN clock ELSE now[Len(now)]
    /\ LET r == generateOutfitRecommendationsSettle(outcome, recCall.prefs, now)
       IN /\ lastCall' = recommendCalled(r, outcome)
          /\ recommendations' = recommendationsAfter(r, recommendations)
          /\ hasSearched' = searchedAfter(r, hasSearched)
          /\ error' = IF r.kind = "returned" THEN error ELSE errorFor(r.message)
          /\ cards' = cardsAfter(activeTab, hasSearched', recommendations',
                                 showsCards(activeTab, hasSearched), recommendations,
                                 cards)
          /\ crashed' = crashAfter(activeTab, hasSearched', recommendations')
    /\ isLoading' = FALSE
    /\ recCall' = [RecIdle EXCEPT !.pending = recCall.pending - 1]
    /\ UNCHANGED <<keyPresent, aiClient, store, nextId, activeTab, wardrobeItems,
                   isAnalyzing, items, anaCall, svc, probe, dbCall,
                   reads, importCall>>

\* App.tsx:70-74, from the back button (App.tsx:84-91).
handleReset ==
    /\ ~crashed
    /\ lastCall' = NoCall
    /\ activeTab = "STYLIST" /\ hasSearched
    /\ hasSearched' = FALSE
    /\ recommendations' = <<>>
    /\ error' = Null
    /\ cards' = <<>>
    /\ UNCHANGED <<keyPresent, aiClient, clock, store, nextId, activeTab, isLoading,
                   wardrobeItems, crashed, recCall, isAnalyzing, items, anaCall, svc,
                   probe, dbCall,
                   reads, importCall>>

\* App.tsx:158-160 with the effect of App.tsx:38-40 and the mount of the
\* WardrobeManager (types.ts:81-90): both start a store read that nothing awaits.
clickWardrobeTab ==
    /\ ~crashed
    /\ lastCall' = NoCall
    /\ ~isAnalyzing
    /\ activeTab' = "WARDROBE"
    /\ hasSearched' = FALSE
    /\ recommendations' = <<>>
    /\ error' = Null
    /\ cards' = <<>>
    /\ IF activeTab # "WARDROBE"
       THEN /\ reads' = reads \cup {"refreshWardrobe", "loadItems"}
            /\ items' = <<>>
            /\ importCall' = [importCall EXCEPT !.isImporting = FALSE]
       ELSE UNCHANGED <<reads, items, importCall>>
    /\ UNCHANGED <<keyPresent, aiClient, clock, store, nextId, isLoading, wardrobeItems,
                   crashed, recCall, isAnalyzing, anaCall, svc, probe, dbCall>>


\* App.tsx:168-170 with the effect of App.tsx:38-40: the WardrobeManager is
\* unmounted, so what its loadItems reads goes nowhere, and a timer of its
\* handleImportMockData keeps running.
clickStylistTab ==
    /\ ~crashed
    /\ lastCall' = NoCall
    /\ ~isAnalyzing
    /\ activeTab = "WARDROBE"
    /\ activeTab' = "STYLIST"
    /\ reads' = (reads \ {"loadItems"}) \cup {"refreshWardrobe"}
    /\ items' = <<>>
    /\ importCall' = [importCall EXCEPT
                        !.isImporting = FALSE,
                        !.pc = IF @ = "timer" THEN "unmounted" ELSE @]
    /\ cards' = cardsAfter("STYLIST", hasSearched, recommendations, FALSE, <<>>, <<>>)
    /\ crashed' = crashAfter("STYLIST", hasSearched, recommendations)
    /\ UNCHANGED <<keyPresent, aiClient, clock, store, nextId, recommendations, isLoading,
                   hasSearched, error, wardrobeItems, recCall, isAnalyzing, anaCall, svc,
                   probe, dbCall>>


\* types.ts:315-336 (and 338-348 when the service returns at once): the generate
\* button of card c is clicked.
handleGenerateVisual(c) ==
    /\ ~crashed
    /\ c \in DOMAIN cards
    /\ generateButtonShown(cards[c]) /\ generateButtonEnabled(cards[c])
    /\ cards[c].imageUrl = Null
    /\ LET rec == recommendations[c]
           started == cardOnGenerate(cards[c])
           call == generateOutfitVisualCall(aiClient, keyPresent)
           referenceItems == usedWardrobeItems(rec.items, wardrobeItems)
           prompt == visualPrompt(cardDescription(rec), rec.context, referenceItems)
       IN /\ aiClient' = clientAfter(aiClient, keyPresent)
          /\ IF call.kind = "pending"
             THEN /\ cards' = [cards EXCEPT ![c] = [started EXCEPT !.pending = @ + 1,
                                                                   !.prompt = prompt,
                                                                   !.refs = referenceItems]]
                  /\ lastCall' = NoCall
             ELSE /\ cards' = [cards EXCEPT ![c] = cardAfterVisual(started, call)]
                  /\ lastCall' = visualCalled(call, NoAnswer)
    /\ UNCHANGED <<keyPresent, clock, store, nextId, activeTab, recommendations, isLoading,
                   hasSearched, error, wardrobeItems, crashed, recCall, isAnalyzing, items,
                   anaCall, svc, probe, dbCall,
                   reads, importCall>>

\* types.ts:336-348: the image capability answered a call of card c.
handleGenerateVisualSettle(c, outcome) ==
    /\ ~crashed
    /\ c \in DOMAIN cards
    /\ cards[c].pending > 0
    /\ LET r == generateOutfitVisualSettle(outcome)
       IN /\ lastCall' = visualCalled(r, outcome)
          /\ cards' = [cards EXCEPT ![c] = cardAfterSettle(cardAfterVisual(cards[c], r))]
    /\ UNCHANGED <<keyPresent, aiClient, clock, store, nextId, activeTab, recommendations,
                   isLoading, hasSearched, error, wardrobeItems, crashed, recCall,
                   isAnalyzing, items, anaCall, svc, probe, dbCall,
                   reads, importCall>>

\* types.ts:152-164 (and 178-184 when the service throws at once): a file is picked
\* and read, and analyzeWardrobeItem is called.
handleFileSelect(file) ==
    /\ ~crashed
    /\ activeTab = "WARDROBE" /\ ~isAnalyzing
    /\ nextId <= MaxItems
    /\ LET call == analyzeWardrobeItemCall(aiClient, keyPresent)
       IN /\ aiClient' = clientAfter(aiClient, keyPresent)
          /\ IF call.kind = "pending"
             THEN /\ isAnalyzing' = TRUE
                  /\ anaCall' = [pc |-> "ai", mimeType |-> file.mimeType,
                                 base64 |-> file.base64,
                                 request |-> analyzeRequest(file.base64)]
                  /\ lastCall' = NoCall
             ELSE /\ lastCall' = analyzeCalled(call, NoAnswer)
                  /\ UNCHANGED <<isAnalyzing, anaCall>>
    /\ UNCHANGED <<keyPresent, clock, store, nextId, activeTab, recommendations, isLoading,
                   hasSearched, error, wardrobeItems, crashed, recCall, cards, items, svc,
                   probe, dbCall,
                   reads, importCall>>

\* types.ts:164-184: the classification capability answered.
handleFileSelectSettle(outcome, now) ==
    /\ ~crashed
    /\ anaCall.pc = "ai"
    /\ LET r == analyzeWardrobeItemSettle(outcome)
           newItem == [id |-> nextId, imageData |-> anaCall.base64,
                       mimeType |-> anaCall.mimeType, category |-> r.value.category,
                       description |-> r.value.description, tags |-> r.value.tags,
                       createdAt |-> now]
       IN /\ lastCall' = analyzeCalled(r, outcome)
          /\ IF r.kind = "returned" /\ ~addWardrobeItemFails(store, newItem)
             THEN /\ store' = addWardrobeItem(store, newItem)
                  /\ nextId' = nextId + 1
                  /\ clock' = now
                  /\ items' = loadItems(store')
                  /\ reads' = reads \cup {"refreshWardrobe"}
             ELSE UNCHANGED <<store, nextId, clock, items, reads>>
    /\ isAnalyzing' = FALSE
    /\ anaCall' = AnaIdle
    /\ UNCHANGED <<keyPresent, aiClient, activeTab, recommendations, isLoading,
                   hasSearched, error, wardrobeItems, crashed, recCall, cards, svc, probe,
                   dbCall, importCall>>

\* types.ts:189-195, confirmed: the delete button of a displayed item.  The delete
\* is awaited; loadItems() and onItemChange() (refreshWardrobe) are called and
\* not awaited.
handleDelete(id) ==
    /\ ~crashed
    /\ lastCall' = NoCall
    /\ activeTab = "WARDROBE" /\ ~isAnalyzing
    /\ \E k \in 1..Len(items) : items[k].id = id
    /\ store' = deleteWardrobeItem(store, id)
    /\ reads' = reads \cup {"loadItems", "refreshWardrobe"}
    /\ UNCHANGED <<keyPresent, aiClient, clock, nextId, activeTab, recommendations,
                   isLoading, hasSearched, error, wardrobeItems, crashed, recCall, cards,
                   isAnalyzing, items, anaCall, svc, probe, dbCall, importCall>>


\* types.ts:92-95, after the await: a loadItems call that no handler awaits has
\* read the store.
loadItemsSettle ==
    /\ ~crashed
    /\ "loadItems" \in reads
    /\ activeTab = "WARDROBE"
    /\ reads' = reads \ {"loadItems"}
    /\ items' = loadItems(store)
    /\ lastCall' = NoCall
    /\ UNCHANGED <<keyPresent, aiClient, clock, store, nextId, activeTab, recommendations,
                   isLoading, hasSearched, error, wardrobeItems, crashed, recCall, cards,
                   isAnalyzing, anaCall, svc, probe, dbCall, importCall>>

\* App.tsx:19-28, after the await: a refreshWardrobe call has read the store.
refreshWardrobeSettle ==
    /\ ~crashed
    /\ "refreshWardrobe" \in reads
    /\ reads' = reads \ {"refreshWardrobe"}
    /\ wardrobeItems' = getAllWardrobeItems(store)
    /\ lastCall' = NoCall
    /\ UNCHANGED <<keyPresent, aiClient, clock, store, nextId, activeTab, recommendations,
                   isLoading, hasSearched, error, crashed, recCall, cards, isAnalyzing,
                   items, anaCall, svc, probe, dbCall, importCall>>

\* types.ts:122-127: the sample clothes, with ASCII stand-ins for the descriptions.
mockItems ==
    <<[cat |-> "TOP", desc |-> "cute white tee", color |-> "#FFB7B2", text |-> "Tee"],
      [cat |-> "BOTTOM", desc |-> "jeans", color |-> "#C7CEEA", text |-> "Jeans"],
      [cat |-> "OUTERWEAR", desc |-> "warm coat", color |-> "#E2D5C4", text |-> "Coat"],
      [cat |-> "SHOES", desc |-> "white sneakers", color |-> "#B5EAD7", text |-> "Shoes"]>>

\* types.ts:97-116: the placeholder image, as the text that determines it.
createPlaceholderImage(color, text) == "jpeg(" \o color \o "," \o text \o ")"

\* crypto.randomUUID() of the k-th sample of the n-th import: the ids below
\* NoRef, which no uploaded item and no answer of the capability has.
mockId(n, k) == 0 - (n * Len(mockItems) + k)

MockIds == {mockId(n, k) : n \in 0..(MaxImports - 1), k \in 1..Len(mockItems)}

\* types.ts:130-138: the k-th sample of the n-th import.
mockItem(n, k, now) ==
    [id |-> mockId(n, k),
     imageData |-> createPlaceholderImage(mockItems[k].color, mockItems[k].text),
     mimeType |-> "image/jpeg", category |-> mockItems[k].cat,
     description |-> mockItems[k].desc, tags |-> <<"test", mockItems[k].text>>,
     createdAt |-> now]

RECURSIVE addMockItems(_, _, _, _)
\* types.ts:129-140: the loop that puts the samples from the k-th on, one after
\* the other; a put that fails ends the loop.
addMockItems(db, n, k, now) ==
    IF k > Len(mockItems) THEN db
    ELSE IF addWardrobeItemFails(db, mockItem(n, k, now[k])) THEN db
    ELSE addMockItems(addWardrobeItem(db, mockItem(n, k, now[k])), n, k + 1, now)

\* types.ts:196-198: the displayed items under a category filter.
filteredItems(list, filter) ==
    IF filter = "ALL" THEN list
    ELSE SelectSeq(list, LAMBDA item : item.category = filter)

\* types.ts:234-250: the import button is part of the empty view.
importButtonShown(list) ==
    \E filter \in {"ALL"} \cup ClothingCategory : filteredItems(list, filter) = <<>>

\* types.ts:118-120 and 149: the import button is clicked; the handler sets
\* isImporting, starts a timer of 500 ms and returns.
handleImportMockData ==
    /\ ~crashed
    /\ activeTab = "WARDROBE" /\ ~isAnalyzing
    /\ importButtonShown(items)
    /\ ~importCall.isImporting
    /\ importCall.pc = "idle"
    /\ importCall.imports < MaxImports
    /\ importCall' = [importCall EXCEPT !.isImporting = TRUE, !.pc = "timer"]
    /\ lastCall' = NoCall
    /\ UNCHANGED <<keyPresent, aiClient, clock, store, nextId, activeTab, recommendations,
                   isLoading, hasSearched, error, wardrobeItems, crashed, recCall, cards,
                   isAnalyzing, items, anaCall, svc, probe, dbCall, reads>>

\* types.ts:120-148: the timer fires.  The samples are put, loadItems is awaited,
\* onItemChange() (refreshWardrobe) is called and not awaited; setItems and
\* setIsImporting reach the WardrobeManager that started the timer, if it is
\* still mounted.
handleImportMockDataTimer(now) ==
    /\ ~crashed
    /\ importCall.pc \in {"timer", "unmounted"}
    /\ store' = addMockItems(store, importCall.imports, 1, now)
    /\ clock' = now[Len(now)]
    /\ IF importCall.pc = "timer"
       THEN /\ items' = loadItems(store')
            /\ importCall' = [isImporting |-> FALSE, pc |-> "idle",
                              imports |-> importCall.imports + 1]
       ELSE /\ items' = items
            /\ importCall' = [importCall EXCEPT !.pc = "idle", !.imports = @ + 1]
    /\ reads' = reads \cup {"refreshWardrobe"}
    /\ lastCall' = NoCall
    /\ UNCHANGED <<keyPresent, aiClient, nextId, activeTab, recommendations, isLoading,
                   hasSearched, error, wardrobeItems, crashed, recCall, cards,
                   isAnalyzing, anaCall, svc, probe, dbCall>>

Next ==
    \/ \E form \in FormSample : handleSubmit(form)
    \/ handleGetRecommendationsRead
    \/ \E outcome \in RecSample :
          \E now \in Timestamps(Len(outcome.elems)) :
             handleGetRecommendationsSettle(outcome, now)
    \/ handleReset
    \/ clickWardrobeTab
    \/ clickStylistTab
    \/ \E c \in 1..MaxRecs : handleGenerateVisual(c)
    \/ \E c \in 1..MaxRecs, outcome \in VisualSample :
          handleGenerateVisualSettle(c, outcome)
    \/ \E file \in FileSample : handleFileSelect(file)
    \/ \E outcome \in AnalysisSample, now \in Now : handleFileSelectSettle(outcome, now)
    \/ \E id \in ItemIds : handleDelete(id)
    \/ loadItemsSettle
    \/ refreshWardrobeSettle

Spec == Init /\ [][Next]_vars

(***************************************************************************)
(* The import of the sample clothes: the import button and its timer, the  *)
(* delete button, the tab buttons and the store reads in flight.           *)
(***************************************************************************)
NextImport ==
    \/ clickWardrobeTab
    \/ clickStylistTab
    \/ \E id \in MockIds : handleDelete(id)
    \/ handleImportMockData
    \/ \E now \in SameTime(Len(mockItems)) : handleImportMockDataTimer(now)
    \/ loadItemsSettle
    \/ refreshWardrobeSettle

SpecImport == Init /\ [][NextImport]_vars

(***************************************************************************)
(* The exported functions of services/geminiService.ts under a direct      *)
(* caller: each is called with arguments drawn from bounded universes and  *)
(* settles with what the capability answers.                               *)
(***************************************************************************)
sampleItem(id) ==
    [id |-> id, imageData |-> "/9j/4AAQ", mimeType |-> "image/jpeg", category |-> "TOP",
     description |-> "white tee", tags |-> <<"cotton">>, createdAt |-> 0]

ServiceWardrobes == {[k \in 1..n |-> sampleItem(k)] : n \in 0..MaxItems}

\* The preferences generateOutfitRecommendations is called with.
ServicePrefs ==
    [occasion : {"WORK"}, weather : {"SUNNY"}, styleParams : {"", "y2k"},
     gender : {"UNISEX"}, useWardrobe : BOOLEAN, wardrobeItems : ServiceWardrobes]

\* The contexts generateOutfitVisual is called with.
ServiceContexts ==
    [occasion : {"CASUAL", "WORK"}, weather : {"SUNNY", "COLD"}, styleParams : {""},
     gender : {"UNISEX"}, useWardrobe : {FALSE}, wardrobeItems : {<<>>}]

ServiceElements ==
    SampleElements \cup {[title |-> "City look", itemsKind |-> "notseq", items |-> <<>>]}

ServiceRecOutcomes ==
    {[kind |-> k, elems |-> <<>>] : k \in {"error", "empty", "garbage", "scalar"}}
      \cup {[kind |-> "array", elems |-> e] : e \in SeqsUpTo(ServiceElements, MaxRecs)}

ServiceDescriptions == {cardDescription(e) : e \in {x \in ServiceElements : x.itemsKind = "seq"}}

callAnalyze(file) ==
    /\ svc.fn = "none"
    /\ LET call == analyzeWardrobeItemCall(aiClient, keyPresent)
       IN /\ aiClient' = clientAfter(aiClient, keyPresent)
          /\ IF call.kind = "pending"
             THEN /\ svc' = [SvcIdle EXCEPT !.fn = "analyzeWardrobeItem",
                                            !.anaRequest = analyzeRequest(file.base64)]
                  /\ lastCall' = NoCall
             ELSE /\ svc' = SvcIdle
                  /\ lastCall' = analyzeCalled(call, NoAnswer)
    /\ UNCHANGED <<keyPresent, clock, store, nextId, activeTab, recommendations, isLoading,
                   hasSearched, error, wardrobeItems, crashed, recCall, cards,
                   isAnalyzing, items, anaCall, probe, dbCall,
                   reads, importCall>>

settleAnalyze(outcome) ==
    /\ svc.fn = "analyzeWardrobeItem"
    /\ svc' = SvcIdle
    /\ lastCall' = analyzeCalled(analyzeWardrobeItemSettle(outcome), outcome)
    /\ UNCHANGED <<keyPresent, aiClient, clock, store, nextId, activeTab, recommendations,
                   isLoading, hasSearched, error, wardrobeItems, crashed, recCall, cards,
                   isAnalyzing, items, anaCall, probe, dbCall,
                   reads, importCall>>

callRecommend(prefs) ==
    /\ svc.fn = "none"
    /\ LET call == generateOutfitRecommendationsCall(aiClient, keyPresent)
       IN /\ aiClient' = clientAfter(aiClient, keyPresent)
          /\ IF call.kind = "pending"
             THEN /\ svc' = [SvcIdle EXCEPT !.fn = "generateOutfitRecommendations",
                                            !.prefs = prefs,
                                            !.recRequest = recPrompt(prefs)]
                  /\ lastCall' = NoCall
             ELSE /\ svc' = SvcIdle
                  /\ lastCall' = recommendCalled(call, NoAnswer)
    /\ UNCHANGED <<keyPresent, clock, store, nextId, activeTab, recommendations, isLoading,
                   hasSearched, error, wardrobeItems, crashed, recCall, cards,
                   isAnalyzing, items, anaCall, probe, dbCall,
                   reads, importCall>>

settleRecommend(outcome, now) ==
    /\ svc.fn = "generateOutfitRecommendations"
    /\ svc' = SvcIdle
    /\ clock' = IF now = <<>> THEN clock ELSE now[Len(now)]
    /\ lastCall' = recommendCalled(generateOutfitRecommendationsSettle(outcome, svc.prefs, now),
                                 outcome)
    /\ UNCHANGED <<keyPresent, aiClient, store, nextId, activeTab, recommendations,
                   isLoading, hasSearched, error, wardrobeItems, crashed, recCall, cards,
                   isAnalyzing, items, anaCall, probe, dbCall,
                   reads, importCall>>

callVisual(description, context, referenceItems) ==
    /\ svc.fn = "none"
    /\ LET call == generateOutfitVisualCall(aiClient, keyPresent)
       IN /\ aiClient' = clientAfter(aiClient, keyPresent)
          /\ IF call.kind = "pending"
             THEN /\ svc' = [SvcIdle EXCEPT
                               !.fn = "generateOutfitVisual",
                               !.visRequest = visualPrompt(description, context,
                                                           referenceItems)]
                  /\ lastCall' = NoCall
             ELSE /\ svc' = SvcIdle
                  /\ lastCall' = visualCalled(call, NoAnswer)
    /\ UNCHANGED <<keyPresent, clock, store, nextId, activeTab, recommendations, isLoading,
                   hasSearched, error, wardrobeItems, crashed, recCall, cards,
                   isAnalyzing, items, anaCall, probe, dbCall,
                   reads, importCall>>

settleVisual(outcome) ==
    /\ svc.fn = "generateOutfitVisual"
    /\ svc' = SvcIdle
    /\ lastCall' = visualCalled(generateOutfitVisualSettle(outcome), outcome)
    /\ UNCHANGED <<keyPresent, aiClient, clock, store, nextId, activeTab, recommendations,
                   isLoading, hasSearched, error, wardrobeItems, crashed, recCall, cards,
                   isAnalyzing, items, anaCall, probe, dbCall,
                   reads, importCall>>

callVisualAlt(description, context, referenceItems) ==
    /\ svc.fn = "none"
    /\ LET call == generateOutfitVisualAltCall(aiClient, keyPresent)
       IN /\ aiClient' = clientAfter(aiClient, keyPresent)
          /\ IF call.kind = "pending"
             THEN /\ svc' = [SvcIdle EXCEPT
                               !.fn = "generateOutfitVisual(App.tsx)",
                               !.visRequestAlt = visualPromptAlt(description, context,
                                                                 referenceItems)]
                  /\ lastCall' = NoCall
             ELSE /\ svc' = SvcIdle
                  /\ lastCall' = visualAltCalled(call, NoAnswer)
    /\ UNCHANGED <<keyPresent, clock, store, nextId, activeTab, recommendations, isLoading,
                   hasSearched, error, wardrobeItems, crashed, recCall, cards,
                   isAnalyzing, items, anaCall, probe, dbCall,
                   reads, importCall>>

settleVisualAlt(outcome) ==
    /\ svc.fn = "generateOutfitVisual(App.tsx)"
    /\ svc' = SvcIdle
    /\ lastCall' = visualAltCalled(generateOutfitVisualAltSettle(outcome), outcome)
    /\ UNCHANGED <<keyPresent, aiClient, clock, store, nextId, activeTab, recommendations,
                   isLoading, hasSearched, error, wardrobeItems, crashed, recCall, cards,
                   isAnalyzing, items, anaCall, probe, dbCall,
                   reads, importCall>>

\* geminiService.ts:178 (context: prefs): every recommendation of a returned batch
\* holds the preferences object of the caller itself, so an assignment of the
\* caller to a field of that object (here occasion) is read through the context
\* of each of them.
editPreferences(occasion) ==
    /\ svc.fn = "none"
    /\ lastCall.fn = "generateOutfitRecommendations"
    /\ lastCall.kind = "returned"
    /\ lastCall.batch # <<>>
    /\ lastCall' = [lastCall EXCEPT
                      !.batch = [k \in 1..Len(lastCall.batch) |->
                                   [lastCall.batch[k] EXCEPT !.context.occasion = occasion]]]
    /\ UNCHANGED <<keyPresent, aiClient, clock, store, nextId, activeTab, recommendations,
                   isLoading, hasSearched, error, wardrobeItems, crashed, recCall, cards,
                   isAnalyzing, items, anaCall, svc, probe, dbCall,
                   reads, importCall>>

NextService ==
    \/ \E file \in Files : callAnalyze(file)
    \/ \E outcome \in AnalysisOutcomes : settleAnalyze(outcome)
    \/ \E prefs \in ServicePrefs : callRecommend(prefs)
    \/ \E outcome \in ServiceRecOutcomes :
          \E now \in Timestamps(Len(outcome.elems)) : settleRecommend(outcome, now)
    \/ \E description \in ServiceDescriptions, context \in ServiceContexts,
          referenceItems \in ServiceWardrobes :
          callVisual(description, context, referenceItems)
    \/ \E outcome \in VisualOutcomes : settleVisual(outcome)
    \/ \E description \in ServiceDescriptions, context \in ServiceContexts,
          referenceItems \in ServiceWardrobes :
          callVisualAlt(description, context, referenceItems)
    \/ \E outcome \in VisualOutcomes : settleVisualAlt(outcome)
    \/ \E occasion \in {"WORK", "GYM"} : editPreferences(occasion)

SpecService == Init /\ [][NextService]_vars

(***************************************************************************)
(* A caller that asks for the visual of one look twice, the second time    *)
(* with preferences that differ from the first in at most one of occasion, *)
(* weather and gender, and keeps both requests.                            *)
(***************************************************************************)
PromptContexts ==
    [occasion : Occasion, weather : WeatherType, styleParams : {""}, gender : Gender,
     useWardrobe : {FALSE}, wardrobeItems : {<<>>}]

\* The preferences that differ from context in at most one field.
Varied(context) ==
    {c \in PromptContexts :
        Cardinality({f \in {"occasion", "weather", "gender"} : c[f] # context[f]}) <= 1}

\* geminiService.ts:196-221, twice.
buildVisualPrompts(description, first, second, referenceItems) ==
    /\ probe = NoProbe
    /\ ~getAiClientThrows(aiClient, keyPresent)
    /\ probe' = [copy |-> "services/geminiService.ts",
                 description |-> description, referenceItems |-> referenceItems,
                 first |-> first, second |-> second,
                 requests |-> <<visualPrompt(description, first, referenceItems),
                                visualPrompt(description, second, referenceItems)>>]
    /\ UNCHANGED <<keyPresent, aiClient, clock, store, nextId, activeTab, recommendations,
                   isLoading, hasSearched, error, wardrobeItems, crashed, recCall, cards,
                   isAnalyzing, items, anaCall, lastCall, svc, dbCall,
                   reads, importCall>>

\* App.tsx:373-459, twice.
buildVisualPromptsAlt(description, first, second, referenceItems) ==
    /\ probe = NoProbe
    /\ ~getAiClientThrows(aiClient, keyPresent)
    /\ probe' = [copy |-> "App.tsx",
                 description |-> description, referenceItems |-> referenceItems,
                 first |-> first, second |-> second,
                 requests |-> <<visualPromptAlt(description, first, referenceItems),
                                visualPromptAlt(description, second, referenceItems)>>]
    /\ UNCHANGED <<keyPresent, aiClient, clock, store, nextId, activeTab, recommendations,
                   isLoading, hasSearched, error, wardrobeItems, crashed, recCall, cards,
                   isAnalyzing, items, anaCall, lastCall, svc, dbCall,
                   reads, importCall>>

NextPrompt ==
    \/ /\ probe = NoProbe
       /\ \E description \in ServiceDescriptions, first \in PromptContexts,
             referenceItems \in ServiceWardrobes :
             \E second \in Varied(first) :
                buildVisualPrompts(description, first, second, referenceItems)
    \/ /\ probe = NoProbe
       /\ \E description \in ServiceDescriptions, first \in PromptContexts,
             referenceItems \in ServiceWardrobes :
             \E second \in Varied(first) :
                buildVisualPromptsAlt(description, first, second, referenceItems)

SpecPrompt == Init /\ [][NextPrompt]_vars

(***************************************************************************)
(* A direct caller of utils/db: it puts items, deletes ids and reads the   *)
(* collection, and keeps a record of its writes that did not fail.         *)
(***************************************************************************)
MaxWrites == 4

StoredItems == {[sampleItem(id) EXCEPT !.description = d] :
                   id \in ItemIds, d \in {"white tee", "blue jeans"}}

put(item) ==
    /\ Len(dbCall.writes) < MaxWrites
    /\ store' = addWardrobeItem(store, item)
    /\ dbCall' = [op |-> "put", id |-> item.id,
                  error |-> IF addWardrobeItemFails(store, item) THEN DuplicateId ELSE Null,
                  returned |-> <<>>,
                  writes |-> IF addWardrobeItemFails(store, item) THEN dbCall.writes
                             ELSE Append(dbCall.writes, [op |-> "put", item |-> item])]
    /\ UNCHANGED <<keyPresent, aiClient, clock, nextId, activeTab, recommendations,
                   isLoading, hasSearched, error, wardrobeItems, crashed, recCall, cards,
                   isAnalyzing, items, anaCall, lastCall, svc, probe,
                   reads, importCall>>

delete(id) ==
    /\ Len(dbCall.writes) < MaxWrites
    /\ store' = IF deleteWardrobeItemFails(store, id) THEN store
                ELSE deleteWardrobeItem(store, id)
    /\ dbCall' = [op |-> "delete", id |-> id,
                  error |-> IF deleteWardrobeItemFails(store, id) THEN "NotFound" ELSE Null,
                  returned |-> <<>>,
                  writes |-> IF deleteWardrobeItemFails(store, id) THEN dbCall.writes
                             ELSE Append(dbCall.writes, [op |-> "delete", id |-> id])]
    /\ UNCHANGED <<keyPresent, aiClient, clock, nextId, activeTab, recommendations,
                   isLoading, hasSearched, error, wardrobeItems, crashed, recCall, cards,
                   isAnalyzing, items, anaCall, lastCall, svc, probe,
                   reads, importCall>>

getAll ==
    /\ dbCall.op # "getAll"
    /\ dbCall' = [dbCall EXCEPT !.op = "getAll", !.id = NoRef, !.error = Null,
                                !.returned = getAllWardrobeItems(store)]
    /\ UNCHANGED <<keyPresent, aiClient, clock, store, nextId, activeTab, recommendations,
                   isLoading, hasSearched, error, wardrobeItems, crashed, recCall, cards,
                   isAnalyzing, items, anaCall, lastCall, svc, probe,
                   reads, importCall>>

NextStore ==
    \/ \E item \in StoredItems : put(item)
    \/ \E id \in ItemIds \cup {UnknownId} : delete(id)
    \/ getAll

SpecStore == Init /\ [][NextStore]_vars

(***************************************************************************)
(* The claims.                                                             *)
(***************************************************************************)

\* C1: when the API key is missing, every call of analyzeWardrobeItem,
\* generateOutfitRecommendations and generateOutfitVisual throws API_KEY_MISSING
\* to its caller, and has sent no request to the capability.
C1_MissingKeySurfaced ==
    (~keyPresent /\ lastCall.fn # "none") =>
        /\ lastCall.kind = "threw"
        /\ lastCall.message = ApiKeyMissing
        /\ ~lastCall.requested

\* C2: generateOutfitVisual (either copy) never throws once it has sent its
\* request: whatever the capability answers, it returns null or the data URL of an
\* inline part of the answer, and null when the answer has no such part or the
\* request failed.
C2_VisualNeverThrows ==
    (lastCall.fn \in {"generateOutfitVisual", "generateOutfitVisual(App.tsx)"}
       /\ lastCall.requested) =>
        /\ lastCall.kind = "returned"
        /\ lastCall.answer.kind # "parts" => lastCall.image = Null
        /\ lastCall.image # Null =>
              \E k \in 1..Len(lastCall.answer.parts) :
                 /\ lastCall.answer.parts[k].inlineData
                 /\ lastCall.answer.parts[k].data # ""
                 /\ lastCall.image = dataUrl(lastCall.answer.parts[k])

\* C2: a call whose request the capability rejected has returned null.
C2_Witness ==
    /\ lastCall.fn = "generateOutfitVisual"
    /\ lastCall.answer.kind = "error"
    /\ lastCall.kind = "returned"
    /\ lastCall.image = Null

\* C3: for every response that does not conform to the schema,
\* generateOutfitRecommendations throws and returns no batch; a batch it returns
\* holds conformant recommendations only.
C3_NonConformantRejected ==
    lastCall.fn = "generateOutfitRecommendations" =>
        /\ (lastCall.requested /\ ~responseSchema(lastCall.answer)) =>
              (lastCall.kind = "threw" /\ lastCall.batch = <<>>)
        /\ lastCall.kind = "returned" =>
              \A k \in 1..Len(lastCall.batch) : recommendationSchema(lastCall.batch[k])

\* C4, in a state: no card has had its image set more than once, and a card that
\* carries an image has no generateOutfitVisual call in flight.
C4_State ==
    \A c \in DOMAIN cards :
        /\ cards[c].assigned <= 1
        /\ cards[c].imageUrl # Null => cards[c].pending = 0

\* C4, in a step: the image of a card that stays mounted does not change once set,
\* and a call is started only for a card without an image.
C4_Step ==
    \A c \in DOMAIN cards :
        c \in DOMAIN cards' =>
            /\ (recommendations'[c].id = recommendations[c].id /\ cards[c].imageUrl # Null)
                  => cards'[c].imageUrl = cards[c].imageUrl
            /\ cards'[c].pending > cards[c].pending => cards[c].imageUrl = Null

\* C4: for every card and every sequence of generate requests, the image is set
\* at most once, never changes afterwards, and no generateOutfitVisual call starts
\* for a card that carries an image.
C4_VisualAssignedOnce == [] C4_State /\ [][C4_Step]_vars

\* C4: a card carries an image while another card of the batch is generating.
C4_Witness ==
    \E c, d \in DOMAIN cards :
        /\ cards[c].imageUrl # Null /\ cards[c].assigned = 1
        /\ cards[d].pending = 1

\* C5: the owned count of a displayed recommendation is the number of its outfit
\* items whose wardrobeItemId is the id of an item in the store.
C5_OwnedCountMatchesStore ==
    \A c \in DOMAIN cards :
        ownedCount(recommendations[c]) =
            Cardinality({k \in 1..Len(recommendations[c].items) :
                           \E w \in 1..Len(store) :
                              store[w].id = recommendations[c].items[k].wardrobeItemId})

\* C6: with useWardrobe false and an empty snapshot, the request holds no
\* inventory text and, for every conformant response, no outfit item of a returned
\* recommendation has a wardrobeItemId.
C6_NoWardrobeNoBackReference ==
    /\ (recCall.pc = "ai" /\ ~recCall.prefs.useWardrobe /\ recCall.prefs.wardrobeItems = <<>>)
          => ~recCall.request.wardrobeContext.present
    /\ (lastCall.fn = "generateOutfitRecommendations" /\ responseSchema(lastCall.answer)) =>
          \A k \in 1..Len(lastCall.batch) :
             (~lastCall.batch[k].context.useWardrobe
                /\ lastCall.batch[k].context.wardrobeItems = <<>>) =>
                  \A j \in 1..Len(lastCall.batch[k].items) :
                     lastCall.batch[k].items[j].wardrobeItemId = NoRef

\* C7: a generateOutfitRecommendations call that throws returns no batch; from
\* the request on, recommendations is empty and hasSearched false, and they still
\* are after handleGetRecommendations has failed, with the error message set.
C7_AllOrNothing ==
    /\ recCall.pc # "idle" => (recommendations = <<>> /\ ~hasSearched)
    /\ (lastCall.fn = "generateOutfitRecommendations" /\ lastCall.kind = "threw") =>
          /\ lastCall.batch = <<>>
          /\ recommendations = <<>>
          /\ ~hasSearched
          /\ error \in {ConfigError, GenericError}
          /\ cards = <<>>

\* C7: handleGetRecommendations has failed after the capability answered.
C7_Witness ==
    /\ lastCall.fn = "generateOutfitRecommendations"
    /\ lastCall.kind = "threw"
    /\ lastCall.requested
    /\ lastCall.answer.kind = "garbage"

\* C8: a failure of generateOutfitRecommendations carries API_KEY_MISSING exactly
\* when the key is missing, and handleGetRecommendations shows the configuration
\* error exactly for that failure and the generic error for every other one.
C8_ConfigErrorIffKeyMissing ==
    (lastCall.fn = "generateOutfitRecommendations" /\ lastCall.kind = "threw") =>
        /\ lastCall.message = ApiKeyMissing <=> ~keyPresent
        /\ error = ConfigError <=> lastCall.message = ApiKeyMissing
        /\ error = GenericError <=> lastCall.message # ApiKeyMissing

\* C8: the configuration error is shown after a request without a key.
C8_Witness ==
    /\ lastCall.fn = "generateOutfitRecommendations"
    /\ lastCall.message = ApiKeyMissing
    /\ error = ConfigError
    /\ ~isLoading

\* C9: when the capability rejects the request or answers what cannot be read,
\* analyzeWardrobeItem returns the degraded record; it throws only
\* API_KEY_MISSING, only without a key, and then always.
C9_AnalyzeDegrades ==
    lastCall.fn = "analyzeWardrobeItem" =>
        /\ lastCall.answer.kind \in {"error", "garbage", "null"} =>
              /\ lastCall.kind = "returned"
              /\ lastCall.analysis =
                    [category |-> "TOP", description |-> "UPLOADED_ITEM", tags |-> <<>>]
        /\ lastCall.kind = "threw" =>
              (lastCall.message = ApiKeyMissing /\ ~lastCall.requested /\ ~keyPresent)
        /\ ~keyPresent => lastCall.kind = "threw"

\* C9: an answer that is not JSON was degraded.
C9_Witness ==
    /\ lastCall.fn = "analyzeWardrobeItem"
    /\ lastCall.answer.kind = "garbage"
    /\ lastCall.analysis.description = "UPLOADED_ITEM"

\* C10: the category analyzeWardrobeItem returns is a member of ClothingCategory:
\* the category of the answer when that is a member, TOP otherwise; and every
\* stored and every displayed wardrobe item has a member as its category.
C10_CategoryInEnum ==
    /\ \A k \in 1..Len(store) : store[k].category \in ClothingCategory
    /\ \A k \in 1..Len(items) : items[k].category \in ClothingCategory
    /\ (lastCall.fn = "analyzeWardrobeItem" /\ lastCall.kind = "returned") =>
          /\ lastCall.analysis.category \in ClothingCategory
          /\ lastCall.answer.kind = "object" =>
                lastCall.analysis.category =
                   IF lastCall.answer.result.category \in ClothingCategory
                   THEN lastCall.answer.result.category
                   ELSE "TOP"

\* C10: an item was stored after an answer whose category differs from a member
\* in case only.
C10_Witness ==
    /\ lastCall.fn = "analyzeWardrobeItem"
    /\ lastCall.answer.kind = "object"
    /\ lastCall.answer.result.category = "top"
    /\ Len(store) > 0
    /\ store[Len(store)].category = "TOP"

\* C11: when the capability answers an empty array, generateOutfitRecommendations
\* returns an empty batch and throws nothing.
C11_EmptyResponseEmptyBatch ==
    (lastCall.fn = "generateOutfitRecommendations"
       /\ lastCall.answer.kind = "array" /\ lastCall.answer.elems = <<>>) =>
        /\ lastCall.kind = "returned"
        /\ lastCall.message = ""
        /\ lastCall.batch = <<>>

\* C11: a call has settled on an empty array.
C11_Witness ==
    /\ lastCall.fn = "generateOutfitRecommendations"
    /\ lastCall.answer.kind = "array"
    /\ lastCall.answer.elems = <<>>
    /\ lastCall.requested

\* C12: while a generateOutfitVisual call of a card is in flight, the reference
\* items it was given are the stored items that the outfit items of the
\* recommendation refer to, one per referring outfit item and in outfit order; an
\* outfit item that refers to no stored item contributes nothing.
C12_ReferenceItemsResolve ==
    \A c \in DOMAIN cards :
        cards[c].pending > 0 =>
            LET outfit == recommendations[c].items
                resolving == {k \in 1..Len(outfit) :
                                \E w \in 1..Len(store) :
                                   store[w].id = outfit[k].wardrobeItemId}
            IN /\ Len(cards[c].refs) = Cardinality(resolving)
               /\ \A i \in 1..Len(cards[c].refs) :
                     \E k \in resolving, w \in 1..Len(store) :
                        /\ Cardinality({j \in resolving : j < k}) = i - 1
                        /\ store[w].id = outfit[k].wardrobeItemId
                        /\ cards[c].refs[i] = store[w]

\* C13: the context of a returned recommendation is a copy of its own: while the
\* caller holds the batch, nothing the caller does to its preferences object
\* changes the context that a recommendation of the batch carries.
C13_ContextIsOwnedCopy ==
    [][(/\ lastCall.fn = "generateOutfitRecommendations"
        /\ lastCall.kind = "returned"
        /\ lastCall'.fn = "generateOutfitRecommendations"
        /\ svc.fn = "none" /\ svc'.fn = "none") =>
          \A k \in 1..Len(lastCall.batch) :
             /\ k \in 1..Len(lastCall'.batch)
             /\ lastCall'.batch[k].context = lastCall.batch[k].context]_vars

\* C14: no two recommendations of a returned batch have the same id, and the
\* batch has one recommendation per element of the response, in response order.
C14_BatchIdsUnique ==
    (lastCall.fn = "generateOutfitRecommendations" /\ lastCall.kind = "returned") =>
        /\ \A j, k \in 1..Len(lastCall.batch) :
              j # k => lastCall.batch[j].id # lastCall.batch[k].id
        /\ Len(lastCall.batch) = Len(lastCall.answer.elems)
        /\ \A k \in 1..Len(lastCall.batch) :
              /\ lastCall.batch[k].title = lastCall.answer.elems[k].title
              /\ lastCall.batch[k].itemsKind = lastCall.answer.elems[k].itemsKind
              /\ lastCall.batch[k].items = lastCall.answer.elems[k].items

\* C14: a batch of two different recommendations was built within one
\* millisecond.
C14_Witness ==
    /\ lastCall.fn = "generateOutfitRecommendations"
    /\ Len(lastCall.batch) = 2
    /\ lastCall.batch[1].id = "rec-0-0"
    /\ lastCall.batch[2].id = "rec-0-1"
    /\ lastCall.batch[1].items # lastCall.batch[2].items

\* C15: the request generateOutfitVisual builds reflects each of the occasion,
\* the weather and the gender of the captured preferences: two requests for
\* the same look and the same reference items are equal when the preferences
\* are equal, and differ when the preferences differ only in that one is for
\* the office and the other for the gym, or one for a sunny and the other
\* for a rainy day, or one for a woman and the other for a man.
C15_RequestMapsPreferences ==
    probe.copy # "none" =>
       /\ probe.first = probe.second => probe.requests[1] = probe.requests[2]
       /\ \A f \in {"occasion", "weather", "gender"} :
             {probe.first[f], probe.second[f]}
                \in {{"WORK", "GYM"}, {"SUNNY", "RAINY"}, {"FEMALE", "MALE"}}
             => probe.requests[1] # probe.requests[2]

\* C16: a click on the generate button of a recommendation none of whose outfit
\* items resolves to a stored item sends, when the client can be built, a request
\* whose outfit text is the title and the colour and name of every outfit item
\* and nothing else; and when the capability answers such a request with an
\* inline image, the call returns an image and the card shows it.
C16_TextOnlyVisual ==
    [][\A c \in DOMAIN cards :
          (c \in DOMAIN cards' /\ c \in DOMAIN recommendations) =>
             /\ (cards'[c].pending > cards[c].pending
                   /\ usedWardrobeItems(recommendations[c].items, wardrobeItems) = <<>>) =>
                   cards'[c].prompt.wearing =
                      [description |->
                          [title |-> recommendations[c].title,
                           items |-> [k \in 1..Len(recommendations[c].items) |->
                                        <<recommendations[c].items[k].color,
                                          recommendations[c].items[k].name>>]],
                       including |-> <<>>]
             /\ (cards'[c].pending < cards[c].pending
                   /\ cards[c].refs = <<>>
                   /\ cards[c].imageUrl = Null
                   /\ lastCall'.answer.kind = "parts"
                   /\ \E k \in 1..Len(lastCall'.answer.parts) :
                         /\ lastCall'.answer.parts[k].inlineData
                         /\ lastCall'.answer.parts[k].data # "") =>
                   /\ lastCall'.image # Null
                   /\ cards'[c].imageUrl = lastCall'.image]_vars

\* C16: a card whose recommendation has an outfit item, none of them resolving
\* to a wardrobe item, shows the image that its call has just returned.
C16_Witness ==
    /\ lastCall.fn = "generateOutfitVisual"
    /\ lastCall.image # Null
    /\ reads = {}
    /\ \E c \in DOMAIN cards :
          /\ c \in DOMAIN recommendations
          /\ recommendations[c].items # <<>>
          /\ usedWardrobeItems(recommendations[c].items, wardrobeItems) = <<>>
          /\ usedWardrobeItems(recommendations[c].items, store) = <<>>
          /\ cards[c].imageUrl = lastCall.image
          /\ cards[c].assigned = 1

\* C17: a put of an item whose id is stored already fails with DuplicateId and
\* changes nothing: the store still holds one item of that id, the one put
\* first, with the field values it was put with.
C17_DuplicatePutRejected ==
    [][(dbCall'.op = "put" /\ dbCall' # dbCall
          /\ \E i \in 1..Len(store) : store[i].id = dbCall'.id) =>
          /\ dbCall'.error = DuplicateId
          /\ store' = store
          /\ Cardinality({i \in 1..Len(store') : store'[i].id = dbCall'.id}) = 1]_vars

\* C17: a put of a blue item was rejected with DuplicateId while the stored item
\* of that id is a white one.
C17_Witness ==
    /\ dbCall.op = "put"
    /\ dbCall.error = DuplicateId
    /\ \E i \in 1..Len(store) :
          /\ store[i].id = dbCall.id
          /\ store[i].description = "white tee"
    /\ \E k \in 1..Len(dbCall.writes) :
          /\ dbCall.writes[k].op = "put"
          /\ dbCall.writes[k].item.id = dbCall.id
          /\ dbCall.writes[k].item.description = "white tee"

\* C18: a delete of an id that is not stored reports no error and leaves the
\* store as it is; in particular the second of two deletes of one id, one
\* right after the other, changes nothing.
C18_DeleteIdempotent ==
    [][(dbCall'.op = "delete" /\ dbCall' # dbCall) =>
          /\ (\A i \in 1..Len(store) : store[i].id # dbCall'.id) =>
                (dbCall'.error = Null /\ store' = store)
          /\ (dbCall.op = "delete" /\ dbCall.id = dbCall'.id) =>
                (dbCall'.error = Null /\ store' = store)
          /\ \A i \in 1..Len(store') : store'[i].id # dbCall'.id]_vars

\* C18: an id was deleted twice in a row, the first delete removing its item,
\* while another item is stored.
C18_Witness ==
    /\ dbCall.op = "delete"
    /\ dbCall.error = Null
    /\ store # <<>>
    /\ Len(dbCall.writes) >= 3
    /\ LET n == Len(dbCall.writes)
       IN /\ dbCall.writes[n] = [op |-> "delete", id |-> dbCall.id]
          /\ dbCall.writes[n - 1] = [op |-> "delete", id |-> dbCall.id]
          /\ dbCall.writes[n - 2].op = "put"
          /\ dbCall.writes[n - 2].item.id = dbCall.id

\* C19: getAll returns the items of the puts that did not fail and that no
\* later delete of their id followed, each as it was put, in the order of the
\* puts.
C19_GetAllReflectsWrites ==
    dbCall.op = "getAll" =>
        LET writes == dbCall.writes
            live == {k \in 1..Len(writes) :
                       /\ writes[k].op = "put"
                       /\ \A j \in (k + 1)..Len(writes) :
                             ~(writes[j].op = "delete" /\ writes[j].id = writes[k].item.id)}
        IN /\ Len(dbCall.returned) = Cardinality(live)
           /\ \A k \in live :
                 dbCall.returned[Cardinality({j \in live : j <= k})] = writes[k].item

\* C19: getAll returned two items, the first of which was put after an item
\* of its id had been put and deleted.
C19_Witness ==
    /\ dbCall.op = "getAll"
    /\ Len(dbCall.returned) = 2
    /\ Len(dbCall.writes) = 4
    /\ dbCall.writes[1].op = "put"
    /\ dbCall.writes[2] = [op |-> "delete", id |-> dbCall.writes[1].item.id]
    /\ dbCall.writes[3].op = "put"
    /\ dbCall.writes[3].item.id = dbCall.writes[1].item.id
    /\ dbCall.writes[3].item # dbCall.writes[1].item
    /\ dbCall.returned[1] = dbCall.writes[3].item

\* C20: whatever schema-conformant response the capability gives, an outfit item
\* of a returned recommendation that has a wardrobeItemId refers to an item of
\* the wardrobe snapshot the request was made with.
C20_BackReferencesInSnapshot ==
    (lastCall.fn = "generateOutfitRecommendations" /\ lastCall.kind = "returned"
       /\ responseSchema(lastCall.answer)) =>
        \A k \in 1..Len(lastCall.batch) :
           \A j \in 1..Len(lastCall.batch[k].items) :
              lastCall.batch[k].items[j].wardrobeItemId # NoRef =>
                 \E w \in 1..Len(lastCall.batch[k].context.wardrobeItems) :
                    lastCall.batch[k].context.wardrobeItems[w].id
                       = lastCall.batch[k].items[j].wardrobeItemId

\* C21: the add-item flow writes to the store only in the step in which
\* analyzeWardrobeItem returns, and then one record with an id no stored item
\* has, the image and the media type of the file, a category of the enum, a
\* description, a tag list and a creation time; the step in which
\* analyzeWardrobeItem throws API_KEY_MISSING leaves the store as it is, and
\* the step in which it degrades stores the record with the placeholder
\* classification; every stored item is such a complete record.
C21_AddItemWritesWholeRecord ==
    [][/\ (lastCall'.fn = "analyzeWardrobeItem" /\ lastCall' # lastCall
             /\ lastCall'.kind = "threw") =>
             (lastCall'.message = ApiKeyMissing /\ store' = store)
       /\ (lastCall'.fn = "analyzeWardrobeItem" /\ anaCall.pc = "ai" /\ anaCall'.pc = "idle"
             /\ lastCall'.answer.kind \in {"error", "garbage", "null"}) =>
             /\ Len(store') = Len(store) + 1
             /\ store'[Len(store')].category = "TOP"
             /\ store'[Len(store')].description = "UPLOADED_ITEM"
             /\ store'[Len(store')].tags = <<>>
       /\ Len(store') > Len(store) =>
             /\ lastCall'.fn = "analyzeWardrobeItem"
             /\ lastCall'.kind = "returned"
             /\ anaCall.pc = "ai"
             /\ SubSeq(store', 1, Len(store)) = store
             /\ Len(store') = Len(store) + 1
             /\ LET item == store'[Len(store')]
                IN /\ DOMAIN item = {"id", "imageData", "mimeType", "category",
                                     "description", "tags", "createdAt"}
                   /\ item.id # NoRef
                   /\ \A k \in 1..Len(store) : store[k].id # item.id
                   /\ item.imageData = anaCall.base64
                   /\ item.mimeType = anaCall.mimeType
                   /\ item.category = lastCall'.analysis.category
                   /\ item.category \in ClothingCategory
                   /\ item.description = lastCall'.analysis.description
                   /\ item.description \notin {Absent, ""}
                   /\ item.tags = lastCall'.analysis.tags
                   /\ item.createdAt = clock']_vars

\* C21: the last stored item is the record of a file whose classification the
\* capability rejected, stored after another item.
C21_Witness ==
    /\ lastCall.fn = "analyzeWardrobeItem"
    /\ lastCall.answer.kind = "error"
    /\ lastCall.kind = "returned"
    /\ Len(store) = 2
    /\ store[2].description = "UPLOADED_ITEM"
    /\ store[2].imageData = "/9j/4AAQ"
    /\ store[2].mimeType = "image/png"

\* C22: a user action other than a tab switch awaits every store operation it
\* starts: no step of such an action leaves behind a store read that is still
\* in flight and was not in flight before, or a timer that will write to the
\* store after the action has returned.
C22_NoDetachedOperation ==
    [][activeTab' = activeTab =>
          /\ reads' \subseteq reads
          /\ importCall'.pc = "timer" => importCall.pc = "timer"]_vars

\* C23: the request of a pending generateOutfitRecommendations call holds an
\* inventory text exactly when the preferences it was called with have
\* useWardrobe set and a snapshot that is not empty; the text then lists the
\* snapshot's items one by one, in snapshot order, each by its id, its category
\* and its description.
C23_InventoryIffWardrobeUsed ==
    svc.fn = "generateOutfitRecommendations" =>
        LET listing == svc.recRequest.wardrobeContext
            snapshot == svc.prefs.wardrobeItems
        IN /\ listing.present <=> (svc.prefs.useWardrobe /\ snapshot # <<>>)
           /\ ~listing.present => listing.itemsList = <<>>
           /\ listing.present =>
                 /\ Len(listing.itemsList) = Len(snapshot)
                 /\ \A k \in 1..Len(snapshot) :
                       /\ listing.itemsList[k].id = snapshot[k].id
                       /\ listing.itemsList[k].category = snapshot[k].category
                       /\ listing.itemsList[k].description = snapshot[k].description

\* C23: a call is pending whose preferences have useWardrobe unset and a
\* snapshot of two items; its request has no inventory text.
C23_Witness ==
    /\ svc.fn = "generateOutfitRecommendations"
    /\ ~svc.prefs.useWardrobe
    /\ Len(svc.prefs.wardrobeItems) = 2
    /\ ~svc.recRequest.wardrobeContext.present

\* C24: while the classification of a picked file is pending, the image part of
\* the request declares the media type of the file, the one that the stored item
\* will carry.
C24_RequestDeclaresMediaType ==
    anaCall.pc = "ai" =>
        /\ anaCall.request # <<>>
        /\ \A k \in 1..Len(anaCall.request) : anaCall.request[k].mimeType = anaCall.mimeType

\* C25: while the wardrobe tab is the active one, hasSearched is false and there
\* are no recommendations.
C25_WardrobeTabHasNoResults ==
    activeTab = "WARDROBE" => (~hasSearched /\ recommendations = <<>>)

\* C26: isLoading is true exactly while a handleGetRecommendations call is
\* pending, and never more than one such call is pending.
C26_LoadingIffOnePending ==
    /\ recCall.pending \in {0, 1}
    /\ isLoading <=> recCall.pending = 1
    /\ recCall.pending = 1 <=> recCall.pc # "idle"

\* A call failed and settled: isLoading is false again and nothing is pending.
C26_Witness ==
    /\ lastCall.fn = "generateOutfitRecommendations"
    /\ lastCall.kind = "threw"
    /\ recCall.pending = 0
    /\ ~isLoading
    /\ activeTab = "STYLIST"

\* C27: a card never has both an image and imageError; isGeneratingImage is
\* false when no call of the card is pending; an attempt that settles leaves
\* the image set or imageError true; a new attempt starts with imageError false.
C27_CardImageState ==
    [][\A c \in DOMAIN cards' :
          LET new == cards'[c]
          IN /\ ~(new.imageUrl # Null /\ new.imageError)
             /\ new.pending = 0 => ~new.isGeneratingImage
             /\ (c \in DOMAIN cards /\ new # cards[c] /\ new.pending <= cards[c].pending)
                   => (new.imageUrl # Null \/ new.imageError)
             /\ (c \in DOMAIN cards /\ new.pending > cards[c].pending)
                   => (~new.imageError /\ new.isGeneratingImage)]_vars

\* One card's attempt has ended with an image and another card's with a failure.
C27_Witness ==
    \E c, d \in DOMAIN cards :
        /\ cards[c].imageUrl # Null /\ ~cards[c].imageError
        /\ cards[d].imageUrl = Null /\ cards[d].imageError
        /\ cards[c].pending = 0 /\ cards[d].pending = 0

====
